---- MODULE Spec2Model ----
(***************************************************************************)
(* Observable clock of src/observable_clock.hpp: a square-wave clock that  *)
(* owns an intrusive singly linked list of observers and walks it whenever *)
(* the accumulated time reaches the period.                                *)
(*                                                                         *)
(* The Clock struct and the ObserverNode fields are the state.  A call of  *)
(* clock_tick that rolls over runs clock_notify_listeners; the traversal   *)
(* is modelled one loop iteration at a time (pc = "notify", obs is the     *)
(* loop variable), and no other call can start until it has returned.      *)
(* The variables ticks, elapsed, passes, overshoot, bigDelta, calls, op,   *)
(* initArg and atStart are history variables: they record what has been    *)
(* called and never influence the program state.                           *)
(***************************************************************************)
EXTENDS Integers, Sequences, FiniteSets, TLC

VARIABLES
    signal,     \* Clock.signal
    period,     \* Clock.period
    time,       \* Clock.time
    observers,  \* Clock.observers, head of the list
    next,       \* ObserverNode.next of every node
    callback,   \* ObserverNode.callback is non-NULL
    data,       \* ObserverNode.data is non-NULL
    pc,         \* "idle" | "notify" (inside clock_notify_listeners) | "hang"
    obs,        \* loop variable of clock_notify_listeners
    ticks,      \* history: number of clock_tick calls
    elapsed,    \* history: sum of the delta_time arguments
    passes,     \* history: number of clock_notify_listeners calls
    overshoot,  \* history: "never" | "latest" | "earlier": which tick took
                \* time + delta_time strictly beyond period
    bigDelta,   \* history: some delta_time was larger than period
    calls,      \* history: callback invocations per node in the latest pass
    op,         \* history: kind of the latest API call
    initArg,    \* history: the period argument of clock_init
    pool,       \* the ObserverNode objects the caller has declared
    effect,     \* what the callback of every node does to the list
    atStart     \* history: the nodes registered when the latest pass began

vars == <<signal, period, time, observers, next, callback, data, pc, obs,
          ticks, elapsed, passes, overshoot, bigDelta, calls, op, initArg,
          pool, effect, atStart>>

clockVars == <<signal, period, time>>
listVars  == <<observers, next>>
nodeVars  == <<callback, data, pool, effect>>

(***************************************************************************)
(* Bounds of the model.                                                    *)
(***************************************************************************)
WordBits  == 8      \* width of size_t in the model
MaxPeriod == 4      \* periods 0 .. MaxPeriod
MaxDelta  == 5      \* deltas 0 .. MaxDelta
MaxTicks  == 4      \* clock_tick calls per run
MaxCalls  == 2      \* calls[n] saturates here
MaxExampleTicks == 5    \* clock_tick calls per run of the example
MaxListPeriod   == 2    \* periods 1 .. MaxListPeriod of the list runs
MaxListTicks    == 2    \* clock_tick calls per list run
MaxLargeTicks   == 2    \* clock_tick calls per run with large deltas

Modulus == 2 ^ WordBits

NULL  == "NULL"
Nodes == {"A", "B", "C"}
Ptr   == Nodes \cup {NULL}

Periods == 0 .. MaxPeriod
Deltas  == 0 .. MaxDelta

\* The example of the header: period 100, ticks of 25.
ExamplePeriod == 100
ExampleDelta  == 25
LargeDelta    == 2 * ExamplePeriod + ExamplePeriod \div 2
ExampleDeltas == {ExampleDelta, LargeDelta}

\* Node initialisers the caller may have written: every field set, or B
\* without a callback and C without data.
AllSet    == [callback |-> [n \in Nodes |-> TRUE],
              data     |-> [n \in Nodes |-> TRUE]]
SomeUnset == [callback |-> [n \in Nodes |-> n # "B"],
              data     |-> [n \in Nodes |-> n # "C"]]

Min(a, b) == IF a < b THEN a ELSE b

(***************************************************************************)
(* The list reachable from a head pointer.                                 *)
(***************************************************************************)
RECURSIVE Walk(_, _, _)
Walk(n, nxt, seen) ==
    IF n = NULL \/ n \in seen THEN <<>>
    ELSE <<n>> \o Walk(nxt[n], nxt, seen \cup {n})

RECURSIVE EndsAtNull(_, _, _)
EndsAtNull(n, nxt, seen) ==
    IF n = NULL THEN TRUE
    ELSE IF n \in seen THEN FALSE
    ELSE EndsAtNull(nxt[n], nxt, seen \cup {n})

Range(s) == {s[i] : i \in 1 .. Len(s)}

Chain         == Walk(observers, next, {})
Registered    == Range(Chain)
WellFormed    == EndsAtNull(observers, next, {})

(***************************************************************************)
(* clock_init                                                              *)
(***************************************************************************)
\* Variant: the clock starts low.
clock_init_SignalLow(p) ==
    /\ period = p
    /\ time = 0
    /\ signal = FALSE
    /\ observers = NULL

clock_init(p) ==
    /\ period = p
    /\ time = 0
    /\ signal = TRUE
    /\ observers = NULL

(***************************************************************************)
(* clock_add_observer                                                      *)
(***************************************************************************)
\* Variant: the node is linked behind the last node of the list.
clock_add_observer_Append(observer) ==
    /\ pc = "idle"
    /\ IF observer = NULL
       THEN UNCHANGED listVars
       ELSE IF observers = NULL
       THEN /\ next' = [next EXCEPT ![observer] = NULL]
            /\ observers' = observer
       ELSE /\ next' = [next EXCEPT ![Chain[Len(Chain)]] = observer,
                                    ![observer] = NULL]
            /\ UNCHANGED observers
    /\ op' = IF observer = NULL THEN "add_null"
             ELSE IF observer \in Registered THEN "add_dup" ELSE "add"
    /\ UNCHANGED <<clockVars, nodeVars, pc, obs, ticks, elapsed, passes,
                   overshoot, bigDelta, calls, initArg, atStart>>

\* Variant: subscribing restarts the running period.
clock_add_observer_ResetsTime(observer) ==
    /\ pc = "idle"
    /\ IF observer = NULL
       THEN UNCHANGED listVars
       ELSE /\ next' = [next EXCEPT ![observer] = observers]
            /\ observers' = observer
    /\ op' = IF observer = NULL THEN "add_null"
             ELSE IF observer \in Registered THEN "add_dup" ELSE "add"
    /\ time' = 0
    /\ UNCHANGED <<signal, period, nodeVars, pc, obs, ticks, elapsed, passes,
                   overshoot, bigDelta, calls, initArg, atStart>>

clock_add_observer(observer) ==
    /\ pc = "idle"
    /\ IF observer = NULL
       THEN UNCHANGED listVars
       ELSE /\ next' = [next EXCEPT ![observer] = observers]
            /\ observers' = observer
    /\ op' = IF observer = NULL THEN "add_null"
             ELSE IF observer \in Registered THEN "add_dup" ELSE "add"
    /\ UNCHANGED <<clockVars, nodeVars, pc, obs, ticks, elapsed, passes,
                   overshoot, bigDelta, calls, initArg, atStart>>

(***************************************************************************)
(* clock_remove_observer.  current is a pointer to a pointer: the slot     *)
(* HEAD is &clk->observers and the slot n is &n->next.  The loop of a      *)
(* list that ends at NULL visits at most Cardinality(Nodes) + 1 slots; a   *)
(* scan that needs more is walking a cycle that does not hold observer     *)
(* and never returns.                                                      *)
(***************************************************************************)
HEAD == "HEAD"

SlotValue(slot) == IF slot = HEAD THEN observers ELSE next[slot]

\* Variant: a scan that reaches the end unlinks at the last slot anyway.
RECURSIVE Scan_UnlinkAtEnd(_, _, _)
Scan_UnlinkAtEnd(slot, observer, fuel) ==
    IF fuel = 0 THEN [end |-> "diverge", slot |-> slot]
    ELSE IF SlotValue(slot) = NULL THEN [end |-> "found", slot |-> slot]
    ELSE IF SlotValue(slot) = observer THEN [end |-> "found", slot |-> slot]
    ELSE Scan_UnlinkAtEnd(SlotValue(slot), observer, fuel - 1)

RECURSIVE Scan(_, _, _)
Scan(slot, observer, fuel) ==
    IF fuel = 0 THEN [end |-> "diverge", slot |-> slot]
    ELSE IF SlotValue(slot) = NULL THEN [end |-> "miss", slot |-> slot]
    ELSE IF SlotValue(slot) = observer THEN [end |-> "found", slot |-> slot]
    ELSE Scan(SlotValue(slot), observer, fuel - 1)

\* Variant: the head pointer is rewritten whatever slot held the node.
Unlink_HeadOnly(slot, observer) ==
    /\ observers' = next[observer]
    /\ UNCHANGED next

\* Variant: the unlinked node's own next pointer is cleared.
Unlink_ClearNext(slot, observer) ==
    IF slot = HEAD
    THEN /\ observers' = next[observer]
         /\ next' = [next EXCEPT ![observer] = NULL]
    ELSE /\ next' = [next EXCEPT ![slot] = next[observer],
                                 ![observer] = NULL]
         /\ UNCHANGED observers

Unlink(slot, observer) ==
    IF slot = HEAD
    THEN /\ observers' = next[observer]
         /\ UNCHANGED next
    ELSE /\ next' = [next EXCEPT ![slot] = next[observer]]
         /\ UNCHANGED observers

clock_remove_observer(observer) ==
    /\ pc = "idle"
    /\ IF observer = NULL
       THEN /\ UNCHANGED <<listVars, pc>>
            /\ op' = "remove_null"
       ELSE LET r == Scan(HEAD, observer, Cardinality(Nodes) + 1) IN
            CASE r.end = "found" ->
                    /\ Unlink(r.slot, observer)
                    /\ op' = "remove_hit"
                    /\ UNCHANGED pc
              [] r.end = "miss" ->
                    /\ UNCHANGED <<listVars, pc>>
                    /\ op' = "remove_miss"
              [] r.end = "diverge" ->
                    /\ UNCHANGED listVars
                    /\ op' = "remove_miss"
                    /\ pc' = "hang"
    /\ UNCHANGED <<clockVars, nodeVars, obs, ticks, elapsed, passes,
                   overshoot, bigDelta, calls, initArg, atStart>>

(***************************************************************************)
(* clock_notify_listeners: one evaluation of the loop condition and, when  *)
(* it holds, one iteration of the body and the step obs = obs->next.       *)
(***************************************************************************)
\* Variant: the data pointer is not tested.
Invoked_NoDataTest(n) == callback[n]

Invoked(n) == callback[n] /\ data[n]

\* What the callback of node n does when it is invoked: nothing to the
\* clock, clock_remove_observer of its own node, or clock_add_observer of
\* another node that it finds unlinked.
NoEffect      == [kind |-> "none", node |-> NULL]
RemoveSelf    == [kind |-> "remove_self", node |-> NULL]
AddNode(m)    == [kind |-> "add", node |-> m]

Callback(n) ==
    CASE effect[n].kind = "none" -> UNCHANGED listVars
      [] effect[n].kind = "remove_self" ->
            LET r == Scan(HEAD, n, Cardinality(Nodes) + 1) IN
            IF r.end = "found" THEN Unlink(r.slot, n)
            ELSE UNCHANGED listVars
      [] effect[n].kind = "add" ->
            IF effect[n].node \in Registered THEN UNCHANGED listVars
            ELSE /\ next' = [next EXCEPT ![effect[n].node] = observers]
                 /\ observers' = effect[n].node

\* The scan of a callback's clock_remove_observer never returns.
CallbackHangs(n) ==
    /\ effect[n].kind = "remove_self"
    /\ Scan(HEAD, n, Cardinality(Nodes) + 1).end = "diverge"

clock_notify_listeners ==
    /\ pc = "notify"
    /\ IF obs = NULL
       THEN /\ pc' = "idle"
            /\ UNCHANGED <<obs, calls, listVars>>
       ELSE /\ calls' = IF Invoked(obs)
                        THEN [calls EXCEPT ![obs] = Min(@ + 1, MaxCalls)]
                        ELSE calls
            /\ IF Invoked(obs) THEN Callback(obs) ELSE UNCHANGED listVars
            /\ pc' = IF Invoked(obs) /\ CallbackHangs(obs) THEN "hang" ELSE pc
            /\ obs' = next'[obs]
    /\ UNCHANGED <<clockVars, nodeVars, ticks, elapsed, passes,
                   overshoot, bigDelta, op, initArg, atStart>>

(***************************************************************************)
(* clock_tick                                                              *)
(***************************************************************************)
Disabled(p)     == p = 0

\* Variant: the sum is formed in a wider type and never wraps.
Advance_NoWrap(t, d) == t + d

Advance(t, d)   == (t + d) % Modulus

\* Variant: the half period itself still reads high.
Level_Inclusive(t, p) == (t % p) <= (p \div 2)

Level(t, p)     == (t % p) < (p \div 2)

\* Variant: the period has to be exceeded, not reached.
Rollover_Strict(t, p) == t > p

Rollover(t, p)  == t >= p

\* Variant: the rollover keeps the excess over the period.
ResetTime_Remainder(t, p) == t % p

ResetTime(t, p) == 0

\* Variant: the zero-period guard comes after the time update.
TickDisabled_Advance(delta_time) ==
    /\ time' = Advance(time, delta_time)
    /\ UNCHANGED <<signal, period, pc, obs, passes, overshoot, bigDelta,
                   calls, atStart>>

\* period == 0: the call returns at once.
TickDisabled(delta_time) ==
    UNCHANGED <<clockVars, pc, obs, passes, overshoot, bigDelta, calls,
                atStart>>

TickEnabled(delta_time) ==
    LET t == Advance(time, delta_time) IN
    /\ signal' = Level(t, period)
    /\ overshoot' = IF time + delta_time > period THEN "latest"
                    ELSE IF overshoot = "never" THEN "never" ELSE "earlier"
    /\ bigDelta' = (bigDelta \/ delta_time > period)
    /\ UNCHANGED period
    /\ IF Rollover(t, period)
       THEN /\ time' = ResetTime(t, period)
            /\ pc' = "notify"
            /\ obs' = observers
            /\ passes' = passes + 1
            /\ calls' = [n \in Nodes |-> 0]
            /\ atStart' = Registered
       ELSE /\ time' = t
            /\ UNCHANGED <<pc, obs, passes, calls, atStart>>

clock_tick(delta_time) ==
    /\ pc = "idle"
    /\ ticks' = ticks + 1
    /\ elapsed' = elapsed + delta_time
    /\ op' = "tick"
    /\ IF Disabled(period)
       THEN TickDisabled(delta_time)
       ELSE TickEnabled(delta_time)
    /\ UNCHANGED <<listVars, nodeVars, initArg>>

(***************************************************************************)
(* Specifications                                                          *)
(***************************************************************************)
InitWithEffects(ps, nodes, profiles, effects) ==
    /\ initArg \in ps
    /\ clock_init(initArg)
    /\ next = [n \in Nodes |-> NULL]
    /\ pool = nodes
    /\ \E f \in profiles : callback = f.callback /\ data = f.data
    /\ pc = "idle"
    /\ obs = NULL
    /\ ticks = 0
    /\ elapsed = 0
    /\ passes = 0
    /\ overshoot = "never"
    /\ bigDelta = FALSE
    /\ calls = [n \in Nodes |-> 0]
    /\ op = "init"
    /\ effect \in effects
    /\ atStart = {}

\* Callbacks that do not call back into the clock.
InitWith(ps, nodes, profiles) ==
    InitWithEffects(ps, nodes, profiles, {[n \in Nodes |-> NoEffect]})

\* The caller's discipline of the header: a node is linked at most once.
AddObserver ==
    \E n \in pool \cup {NULL} : n \notin Registered /\ clock_add_observer(n)

RemoveObserver == \E n \in pool \cup {NULL} : clock_remove_observer(n)

Notify == clock_notify_listeners

\* Timing runs: every period and delta, two observer nodes.
Init == InitWith(Periods, {"A", "B"}, {AllSet})

Tick == \E d \in Deltas : ticks < MaxTicks /\ clock_tick(d)

Next == Tick \/ AddObserver \/ RemoveObserver \/ Notify

Spec == Init /\ [][Next]_vars

\* The scenario of the header's example: period 100, two observer nodes,
\* ticks of 25, and the single large tick.
InitExample == InitWith({ExamplePeriod}, {"A", "B"}, {AllSet})

TickExample ==
    \E d \in ExampleDeltas : ticks < MaxExampleTicks /\ clock_tick(d)

NextExample == TickExample \/ AddObserver \/ RemoveObserver \/ Notify

SpecExample == InitExample /\ [][NextExample]_vars

\* Large deltas: every period and the example's, deltas that span several
\* periods and deltas that wrap the word.
InitLarge == InitWith(Periods \cup {ExamplePeriod}, {"A", "B"}, {AllSet})

LargeDeltas == Deltas \cup ExampleDeltas \cup {Modulus - 2, Modulus - 1}

TickLarge ==
    \E d \in LargeDeltas : ticks < MaxLargeTicks /\ clock_tick(d)

NextLarge == TickLarge \/ AddObserver \/ RemoveObserver \/ Notify

SpecLarge == InitLarge /\ [][NextLarge]_vars

\* List runs: three observer nodes, few ticks.
InitList == InitWith(1 .. MaxListPeriod, Nodes, {AllSet, SomeUnset})

TickList ==
    \E d \in 1 .. MaxListPeriod : ticks < MaxListTicks /\ clock_tick(d)

NextList == TickList \/ AddObserver \/ RemoveObserver \/ Notify

SpecList == InitList /\ [][NextList]_vars

\* A caller that does not keep the discipline: any node may be added again.
AddAny == \E n \in pool : clock_add_observer(n)

NextDup == TickList \/ AddAny \/ RemoveObserver \/ Notify

SpecDup == InitList /\ [][NextDup]_vars

\* Callbacks that call back into the clock during a pass: a node that
\* removes itself, a node that adds another node.
ReentrantEffects ==
    { [n \in Nodes |-> IF n = "A" THEN RemoveSelf ELSE NoEffect],
      [n \in Nodes |-> IF n = "B" THEN AddNode("C") ELSE NoEffect],
      [n \in Nodes |-> IF n = "B" THEN AddNode("A") ELSE RemoveSelf] }

InitReentrant ==
    InitWithEffects(1 .. MaxListPeriod, Nodes, {AllSet}, ReentrantEffects)

NextReentrant == TickList \/ AddObserver \/ RemoveObserver \/ Notify

SpecReentrant == InitReentrant /\ [][NextReentrant]_vars

(***************************************************************************)
(* Properties of clock_tick and clock_init                                 *)
(***************************************************************************)

\* C1: with period > 0, while the deltas of the ticks so far sum to less
\* than the period no notification pass has run, and once they sum to
\* exactly the period exactly one pass has run: it ran on the tick that
\* made the sum reach the period.
C1_OnePassAtPeriod ==
    (period > 0 /\ elapsed <= period) =>
        passes = (IF elapsed = period THEN 1 ELSE 0)

C1_Witness ==
    /\ period > 1
    /\ elapsed = period
    /\ ticks >= 2
    /\ passes = 1
    /\ time = 0
    /\ Registered # {}

\* C2 as stated: with period > 0, in every reachable state signal is high
\* exactly when the stored time is below period / 2.
C2_SignalFollowsStoredTime ==
    period > 0 => (signal <=> time < period \div 2)

\* C2 as stated, for periods from 2 on: it still fails, after a tick that
\* overshoots the period (period 2: tick(1), tick(2) leaves time 0 and
\* signal low).
C2_SignalFollowsStoredTimeFromTwo ==
    period >= 2 => (signal <=> time < period \div 2)

\* C2: with period >= 2, in the initial state and in every state whose
\* latest tick did not take time + delta_time strictly beyond the period,
\* signal is high exactly when the stored time is below period / 2.
C2_SignalFollowsTimeUnlessOvershoot ==
    (period >= 2 /\ overshoot # "latest") =>
        (signal <=> time < period \div 2)

C2_Witness ==
    /\ period >= 3
    /\ overshoot = "earlier"
    /\ op = "tick"
    /\ time >= period \div 2
    /\ time > 0
    /\ ~signal

\* C3 as stated: period 100 and four ticks of 25: signal reads high, high,
\* low, low after ticks 1..4, no pass on ticks 1..3, and the fourth tick
\* resets time and runs exactly one pass.
C3_HighHighLowLow ==
    /\ (ticks = 1 /\ elapsed = ExampleDelta) => (signal /\ passes = 0)
    /\ (ticks = 2 /\ elapsed = 2 * ExampleDelta) => (signal /\ passes = 0)
    /\ (ticks = 3 /\ elapsed = 3 * ExampleDelta) => (~signal /\ passes = 0)
    /\ (ticks = 4 /\ elapsed = 4 * ExampleDelta) =>
            (~signal /\ passes = 1 /\ time = 0)

\* C3: period 100 and four ticks of 25: signal reads high, low, low, high
\* after ticks 1..4 (50 is not below 50, and 100 mod 100 = 0 is), no pass
\* on ticks 1..3, and the fourth tick resets time and runs exactly one
\* pass.
C3_HighLowLowHigh ==
    /\ (ticks = 1 /\ elapsed = ExampleDelta) =>
            (signal /\ passes = 0 /\ time = ExampleDelta)
    /\ (ticks = 2 /\ elapsed = 2 * ExampleDelta) =>
            (~signal /\ passes = 0 /\ time = 2 * ExampleDelta)
    /\ (ticks = 3 /\ elapsed = 3 * ExampleDelta) =>
            (~signal /\ passes = 0 /\ time = 3 * ExampleDelta)
    /\ (ticks = 4 /\ elapsed = 4 * ExampleDelta) =>
            (signal /\ passes = 1 /\ time = 0)

C3_Witness ==
    /\ period = ExamplePeriod
    /\ ticks = 4
    /\ elapsed = 4 * ExampleDelta
    /\ passes = 1
    /\ time = 0
    /\ pc = "idle"
    /\ Chain = <<"B", "A">>

\* C4 as stated: with period > 0 and every delta at most the period, the
\* number of passes is the number of whole periods in the sum of the
\* deltas.
C4_PassesAreWholePeriods ==
    (period > 0 /\ ~bigDelta) => passes = elapsed \div period

\* C4: with period > 0, as long as no tick has taken time + delta_time
\* strictly beyond the period, the number of passes is the number of whole
\* periods in the sum of the deltas.
C4_PassesAreWholePeriodsUnlessOvershoot ==
    (period > 0 /\ overshoot = "never") => passes = elapsed \div period

C4_Witness ==
    /\ period >= 2
    /\ overshoot = "never"
    /\ passes = 2
    /\ elapsed = 2 * period
    /\ ticks >= 3

\* C5: with period > 0 there are never more passes than ticks, time is 0
\* while the pass of a tick runs, and a first tick that spans two or more
\* periods runs one pass and leaves time 0; with period 100 the first tick
\* of 250 runs exactly one pass and leaves time 0 and signal low.
C5_OnePassPerTick ==
    period > 0 =>
        /\ passes <= ticks
        /\ pc = "notify" => (time = 0 /\ op = "tick")
        /\ (ticks = 1 /\ elapsed >= 2 * period /\ elapsed < Modulus) =>
                (passes = 1 /\ time = 0)
        /\ (period = ExamplePeriod /\ ticks = 1 /\ elapsed = LargeDelta) =>
                (passes = 1 /\ time = 0 /\ ~signal)

C5_Witness ==
    /\ period = ExamplePeriod
    /\ ticks = 1
    /\ elapsed = LargeDelta
    /\ passes = 1
    /\ pc = "idle"
    /\ Registered # {}

\* C6: with period 0, time stays 0, signal stays high, no pass runs and no
\* callback is invoked, whatever ticks are made and whatever observers are
\* registered.
C6_ZeroPeriodInert ==
    period = 0 =>
        /\ time = 0
        /\ signal
        /\ passes = 0
        /\ pc = "idle"
        /\ \A n \in Nodes : calls[n] = 0

C6_Witness ==
    /\ period = 0
    /\ ticks >= 2
    /\ elapsed > 0
    /\ op = "tick"
    /\ Len(Chain) = 2

\* C7: right after clock_init(p) with p > 0, signal is high, time is 0,
\* the stored period is p and the list of observers is empty.
C7_InitialState ==
    (op = "init" /\ initArg > 0) =>
        /\ signal
        /\ time = 0
        /\ period = initArg
        /\ observers = NULL
        /\ Chain = <<>>

C7_Witness ==
    /\ op = "init"
    /\ initArg > 0
    /\ ticks = 0
    /\ pc = "idle"

(***************************************************************************)
(* Properties of the observer list                                         *)
(***************************************************************************)
FullySet(n) == callback[n] /\ data[n]

\* C8: clock_remove_observer(h) leaves h unregistered, and when h was not
\* registered (never added, or removed before) it changes neither the head
\* pointer nor any next pointer, so the list is the same sequence of nodes
\* and a later pass visits the same nodes.
C8_RemoveIdempotent ==
    [][\A h \in Nodes :
          clock_remove_observer(h) =>
              /\ h \notin Registered'
              /\ h \notin Registered => (UNCHANGED listVars /\ Chain' = Chain)
      ]_vars

C8_Witness ==
    /\ op = "remove_miss"
    /\ Len(Chain) = 2
    /\ \E h \in pool \ Registered : next[h] # NULL

\* C9: when a pass has walked the whole list, every registered node with
\* callback and data set has been invoked exactly once and no other node
\* has been invoked; no node is invoked twice while the pass runs.
C9_EachRegisteredOnce ==
    /\ pc = "notify" => \A n \in Nodes : calls[n] <= 1
    /\ (pc = "notify" /\ obs = NULL) =>
           \A n \in Nodes :
               calls[n] = (IF n \in Registered /\ FullySet(n) THEN 1 ELSE 0)

\* A was added, then B, then B was removed (its next pointer still names
\* A), and a pass has walked the list.
C9_Witness ==
    /\ pc = "notify"
    /\ obs = NULL
    /\ Chain = <<"A">>
    /\ next["B"] = "A"
    /\ calls["A"] = 1
    /\ calls["B"] = 0

\* A was added, then B, and a pass has walked the list.
C9_WitnessBoth ==
    /\ pc = "notify"
    /\ obs = NULL
    /\ Chain = <<"B", "A">>
    /\ calls["A"] = 1
    /\ calls["B"] = 1

\* C10 as stated: clock_add_observer(h) of a registered node h leaves the
\* list the same sequence of nodes, ending at NULL, and no pass invokes a
\* node twice.
C10_DuplicateAddIsNoop ==
    /\ [](pc = "notify" => \A n \in Nodes : calls[n] <= 1)
    /\ [][\A h \in Nodes :
             (h \in Registered /\ clock_add_observer(h)) =>
                 (Chain' = Chain /\ WellFormed')
         ]_vars

(***************************************************************************)
(* Properties of a single clock_tick                                       *)
(***************************************************************************)

\* C11: with period > 0, a tick from time t with delta d, t + d within the
\* word, starts a pass exactly when t + d >= period; then the new time is
\* 0, otherwise the new time is t + d, no pass starts and no callback count
\* changes.
C11_PassIffPeriodReached ==
    [][\A d \in LargeDeltas :
          (clock_tick(d) /\ period > 0 /\ time + d < Modulus) =>
              IF time + d >= period
              THEN passes' = passes + 1 /\ pc' = "notify" /\ time' = 0
              ELSE /\ passes' = passes
                   /\ pc' = "idle"
                   /\ time' = time + d
                   /\ calls' = calls
      ]_vars

\* A tick that rolled over, its pass, and then a tick that did not.
C11_Witness ==
    /\ period > 0
    /\ op = "tick"
    /\ ticks = 2
    /\ passes = 1
    /\ pc = "idle"
    /\ time > 0
    /\ elapsed < Modulus
    /\ Registered # {}

\* C12: with period > 0, after a tick with delta d from time t the signal
\* is high exactly when the accumulated time (t + d in the word) taken
\* modulo the period is below period / 2, whether or not the tick rolls
\* over; and of the values 1 .. period that unit ticks accumulate, an odd
\* period reads high for (period - 1) / 2 and low for (period + 1) / 2.
C12_SignalFromAccumulatedTime ==
    /\ [](period % 2 = 1 =>
            /\ Cardinality({t \in 1 .. period : Level(t, period)})
                   = (period - 1) \div 2
            /\ Cardinality({t \in 1 .. period : ~Level(t, period)})
                   = (period + 1) \div 2)
    /\ [][\A d \in LargeDeltas :
             (clock_tick(d) /\ period > 0) =>
                 (signal' <=>
                     (((time + d) % Modulus) % period) < (period \div 2))
         ]_vars

\* An odd period, a tick that rolled over with its excess in the low half.
C12_Witness ==
    /\ period = 3
    /\ op = "tick"
    /\ ticks = 1
    /\ elapsed = 5
    /\ time = 0
    /\ ~signal
    /\ passes = 1

\* C13: with period > 0 the stored time is below the period in every
\* state, whatever ticks, adds and removes have been made.
C13_TimeBelowPeriod ==
    period > 0 => (0 <= time /\ time < period)

C13_Witness ==
    /\ period > 1
    /\ time = period - 1
    /\ passes >= 1
    /\ ticks = 2
    /\ Registered # {}
    /\ op \in {"add", "remove_hit"}

(***************************************************************************)
(* Properties of the list operations                                       *)
(***************************************************************************)

\* C14: clock_add_observer of an unregistered node puts it in front of the
\* list, and a pass invokes the nodes in list order: while it runs, the
\* nodes invoked so far are exactly the fully set nodes in front of the
\* loop variable.  Nodes added in the order h1 .. hn are therefore invoked
\* in the order hn .. h1.
C14_ReverseInsertionOrder ==
    /\ [](pc = "notify" =>
            \E k \in 0 .. Len(Chain) :
                /\ obs = (IF k < Len(Chain) THEN Chain[k + 1] ELSE NULL)
                /\ \A i \in 1 .. Len(Chain) :
                       calls[Chain[i]] =
                           (IF i <= k /\ FullySet(Chain[i]) THEN 1 ELSE 0))
    /\ [][\A h \in Nodes :
             (h \notin Registered /\ clock_add_observer(h)) =>
                 Chain' = <<h>> \o Chain
         ]_vars

\* The list C, B, A; the pass has invoked C and B and is about to invoke A.
C14_Witness ==
    /\ pc = "notify"
    /\ obs = "A"
    /\ Chain = <<"C", "B", "A">>
    /\ calls = [n \in Nodes |-> IF n = "A" THEN 0 ELSE 1]

\* C15: clock_remove_observer of a registered node h leaves the list the
\* same sequence without h: the other nodes stay, in their order, and the
\* list is one node shorter, wherever h stood.
C15_RemoveExactlyOne ==
    [][\A h \in Nodes :
          (h \in Registered /\ clock_remove_observer(h)) =>
              LET Keep(x) == x # h IN
              /\ Chain' = SelectSeq(Chain, Keep)
              /\ Len(Chain') = Len(Chain) - 1
              /\ op' = "remove_hit"
      ]_vars

\* B has been removed from the middle of C, B, A.
C15_Witness ==
    /\ op = "remove_hit"
    /\ Chain = <<"C", "A">>
    /\ next["B"] = "A"

\* C15, head and tail: A has been removed from the tail of C, B, A, and C
\* from the head.
C15_WitnessTail ==
    /\ op = "remove_hit"
    /\ Chain = <<"C", "B">>
    /\ next["A"] = NULL
    /\ next["B"] = NULL

C15_WitnessHead ==
    /\ op = "remove_hit"
    /\ Chain = <<"B", "A">>
    /\ next["C"] = "B"

\* C16: a pass step at a node without callback or without data invokes
\* nothing, leaves the list alone and moves on to the next node; when the
\* pass has walked the list every registered node with both set has been
\* invoked once and every registered node without one of them not at all.
C16_UnsetNodesSkipped ==
    /\ [][(clock_notify_listeners /\ obs # NULL /\ ~FullySet(obs)) =>
             /\ calls' = calls
             /\ obs' = next[obs]
             /\ pc' = "notify"
             /\ UNCHANGED listVars
         ]_vars
    /\ []((pc = "notify" /\ obs = NULL) =>
            \A n \in Registered :
                /\ FullySet(n) => calls[n] = 1
                /\ ~FullySet(n) => calls[n] = 0)

\* C without data at the head, B without callback in the middle, A behind
\* them: the pass has invoked A alone, and all three are still linked.
C16_Witness ==
    /\ ~callback["B"]
    /\ ~data["C"]
    /\ pc = "notify"
    /\ obs = NULL
    /\ Chain = <<"C", "B", "A">>
    /\ calls = [n \in Nodes |-> IF n = "A" THEN 1 ELSE 0]

\* C17: the period is the one given to clock_init in every state; a tick
\* and its pass change neither the head pointer nor any next pointer; an
\* add or a remove changes neither time nor signal.
C17_FrameSeparation ==
    /\ [](period = initArg)
    /\ [][/\ period' = period
          /\ (ticks' # ticks \/ pc = "notify") => UNCHANGED listVars
          /\ (ticks' = ticks /\ pc = "idle") => UNCHANGED <<time, signal>>
         ]_vars

\* In the middle of a period, after a pass, a node has just been added.
C17_Witness ==
    /\ op = "add"
    /\ passes = 1
    /\ ticks = 2
    /\ time > 0
    /\ ~signal
    /\ Len(Chain) = 3

\* C18: when only unregistered nodes are added, the list always ends at
\* NULL without visiting a node twice; it is empty after clock_init, an add
\* registers exactly the node added, a remove unregisters exactly the node
\* removed, a tick and its pass leave the registered nodes as they are, and
\* every step of a pass shortens what is left to walk, so that the pass
\* returns.
C18_ListWellFormed ==
    /\ [](/\ WellFormed
          /\ Registered \subseteq pool
          /\ op = "init" => Registered = {}
          /\ pc = "notify" => EndsAtNull(obs, next, {})
          /\ pc # "hang")
    /\ [][/\ \A h \in Nodes :
                (h \notin Registered /\ clock_add_observer(h)) =>
                    Registered' = Registered \cup {h}
          /\ \A h \in Nodes :
                clock_remove_observer(h) =>
                    Registered' = Registered \ {h}
          /\ (ticks' # ticks \/ pc = "notify") => Registered' = Registered
          /\ (pc = "notify" /\ obs # NULL) =>
                Len(Walk(obs', next', {})) < Len(Walk(obs, next, {}))
         ]_vars

\* A second pass has walked a list of two nodes while a removed node still
\* points into it.
C18_Witness ==
    /\ pc = "notify"
    /\ obs = NULL
    /\ passes = 2
    /\ Len(Chain) = 2
    /\ \E h \in pool \ Registered : next[h] # NULL

(***************************************************************************)
(* Callbacks that call back into the clock during a pass                   *)
(***************************************************************************)

\* C19: with callbacks that remove their own node or add an unlinked
\* node, every pass still walks to NULL and invokes no node twice; when it
\* has walked the list, exactly the nodes registered when it began have
\* been invoked, once each: a node that removed itself does not cut the
\* walk short and is not invoked by a later pass (it is off the list), and
\* a node added by a callback goes to the front, is not invoked by the
\* running pass and is registered when the next one begins.
C19_SelfRemovalAndAddDuringPass ==
    /\ [](pc = "notify" =>
            /\ EndsAtNull(obs, next, {})
            /\ \A n \in Nodes : calls[n] <= 1
            /\ \A n \in Nodes \ atStart : calls[n] = 0)
    /\ []((pc = "notify" /\ obs = NULL) =>
            \A n \in Nodes : calls[n] = (IF n \in atStart THEN 1 ELSE 0))
    /\ [](WellFormed /\ pc # "hang")
    /\ [][(clock_notify_listeners /\ obs # NULL) =>
             /\ Len(Walk(obs', next', {})) < Len(Walk(obs, next, {}))
             /\ effect[obs].kind = "remove_self" =>
                    Registered' = Registered \ {obs}
             /\ (effect[obs].kind = "add"
                    /\ effect[obs].node \notin Registered) =>
                    Chain' = <<effect[obs].node>> \o Chain
         ]_vars

\* A, B and C were registered when the pass began; A has removed itself
\* from in front of another node; all three have been invoked once.
C19_Witness ==
    /\ effect["A"] = RemoveSelf
    /\ effect["B"] = NoEffect
    /\ pc = "notify"
    /\ obs = NULL
    /\ atStart = Nodes
    /\ "A" \notin Registered
    /\ next["A"] # NULL
    /\ Len(Chain) = 2
    /\ \A n \in Nodes : calls[n] = 1

\* C19, a later pass: A removed itself in the first pass and the second
\* pass has invoked B and C alone.
C19_WitnessLaterPass ==
    /\ effect["A"] = RemoveSelf
    /\ effect["B"] = NoEffect
    /\ pc = "notify"
    /\ obs = NULL
    /\ passes = 2
    /\ ticks = 2
    /\ atStart = {"B", "C"}
    /\ calls = [n \in Nodes |-> IF n = "A" THEN 0 ELSE 1]

\* C19, a node added by a callback: B has added C in front of the list
\* during the pass, which has not invoked C.
C19_WitnessAddedNotInvoked ==
    /\ effect["B"] = AddNode("C")
    /\ pc = "notify"
    /\ obs = NULL
    /\ atStart = {"A", "B"}
    /\ Chain[1] = "C"
    /\ Len(Chain) = 3
    /\ calls = [n \in Nodes |-> IF n = "C" THEN 0 ELSE 1]

\* C19, the next pass has invoked the node that a callback added.
C19_WitnessAddedInvokedNext ==
    /\ effect["B"] = AddNode("C")
    /\ pc = "notify"
    /\ obs = NULL
    /\ passes = 2
    /\ ticks = 2
    /\ op = "tick"
    /\ atStart = Nodes
    /\ Chain[1] = "C"
    /\ \A n \in Nodes : calls[n] = 1

(***************************************************************************)
(* Order of the writes of a rollover tick, and the width of the word       *)
(***************************************************************************)

\* C20: with period > 0, a tick starts a pass exactly when time + delta
\* taken modulo 2^WordBits is at least the period, and leaves time below
\* the period either way; when it starts a pass it has already set time
\* to 0 and signal from the accumulated time, and no callback has run
\* yet; time and signal then stay as they are until the pass returns, so
\* every callback finds time 0 and the new signal.
C20_UpdateBeforeNotifyAndWrap ==
    /\ [](pc = "notify" => time = 0)
    /\ [][pc = "notify" => UNCHANGED <<time, signal>>]_vars
    /\ [][\A d \in LargeDeltas :
             (clock_tick(d) /\ period > 0) =>
                 LET w == (time + d) % Modulus IN
                 /\ passes' = passes + 1 <=> w >= period
                 /\ pc' = "notify" <=> w >= period
                 /\ time' < period
                 /\ w >= period =>
                       /\ time' = 0
                       /\ signal' <=> (w % period) < (period \div 2)
                       /\ \A n \in Nodes : calls'[n] = 0
         ]_vars

\* The second tick wrapped the word: its sum passed the period many times
\* over, the wrapped value is below the period and no pass has run.
C20_Witness ==
    /\ period > 1
    /\ op = "tick"
    /\ ticks = 2
    /\ elapsed >= Modulus
    /\ passes = 0
    /\ time >= 1

\* C20, a pass under way: the callback of the first node has run, with
\* time 0.
C20_WitnessInPass ==
    /\ pc = "notify"
    /\ time = 0
    /\ obs # NULL
    /\ \E n \in Nodes : calls[n] = 1

====
